---- MODULE Spec2Model ----
(***************************************************************************)
(* Model of the website-diagnostic pipeline of projeto_diagnostico:        *)
(*   - POST /api/analyze        (src/app/api/analyze/route.ts)             *)
(*   - the four stage collaborators scrapeSite, detectTechnologies,        *)
(*     analyzePerformance and analyzeCRO (with getFallbackAnalysis)        *)
(*   - GET /api/analyze/[analysisId]   (src/unnamed/part_002)              *)
(*   - the Analysis table the GET handler reads (src/unnamed/part_007)     *)
(*                                                                         *)
(* The POST handler is split at its await points: every collaborator call  *)
(* is a "call" step followed by a "return" step, so that overlap, order    *)
(* and what an observer can see in between are visible in the model.       *)
(***************************************************************************)
EXTENDS Integers, Sequences, FiniteSets, TLC

VARIABLES
    requests,          \* number of POST requests received so far
    body,              \* the request body of the POST being served
    analysisId,        \* const analysisId = crypto.randomUUID()
    pc,                \* position of the POST handler
    scrapedData,       \* let scrapedData: ScrapedData | null
    technologiesData,  \* let technologiesData: TechnologyAnalysis | null
    performanceData,   \* let performanceData: PerformanceMetrics | null
    croAnalysis,       \* let croAnalysis: CROAnalysis | null
    errors,            \* const errors: Record<string, string>
    upstream,          \* what the external service of each stage did in this run
    log,               \* the collaborator calls and their outcomes, in order
    response,          \* the NextResponse returned by POST (Null while running)
    store,             \* prisma.analysis: identifier -> Analysis row
    getResp,           \* the last response of GET /api/analyze/[analysisId]
    croInput,          \* the arguments of the analyzeCRO call of this run
    retry,             \* the state of one retryWithBackoff execution
    attempted,         \* identifier -> number of stages the run has been through
    dash,              \* the DashboardPage component and its status requests
    boot               \* evaluation of the env and gemini-client modules

vars == <<requests, body, analysisId, pc, scrapedData, technologiesData,
          performanceData, croAnalysis, errors, upstream, log, response,
          store, getResp, croInput, retry, attempted, dash, boot>>

----------------------------------------------------------------------------
(* Bounds and sample inputs                                                *)

MaxRequests == 2

\* null for object-valued slots, undefined for optional strings
Null == [null |-> TRUE]
Undefined == "undefined"

AnalysisIds == {"id-1", "id-2"}

ValidUrl == "https://shop.example.com"

Bodies ==
    { [json |-> FALSE, name |-> "", email |-> "", empresa |-> "",
       websiteUrl |-> "", phone |-> Undefined],
      [json |-> TRUE, name |-> "Ana Souza", email |-> "ana@example.com",
       empresa |-> "Loja", websiteUrl |-> ValidUrl, phone |-> Undefined],
      [json |-> TRUE, name |-> "Ana Souza", email |-> "ana@example.com",
       empresa |-> "Loja", websiteUrl |-> ValidUrl, phone |-> "(11) 98765-4321"],
      [json |-> TRUE, name |-> "Ana Souza", email |-> "ana@example.com",
       empresa |-> "Loja", websiteUrl |-> "not-a-url", phone |-> ""],
      [json |-> TRUE, name |-> "Al", email |-> "ana@example.com",
       empresa |-> "Loja", websiteUrl |-> ValidUrl, phone |-> ""],
      [json |-> TRUE, name |-> "Ana Souza", email |-> "ana-at-example",
       empresa |-> "L", websiteUrl |-> "ftp://shop.example.com", phone |-> "11987654321"] }

\* no request has been received yet
NoBody ==
    [json |-> FALSE, name |-> "", email |-> "", empresa |-> "",
     websiteUrl |-> "", phone |-> Undefined]

Scores == {0, 49, 50, 89, 90, 100}
ClsDisplayValues == {"0", "0.05", "0.1", "0.25"}

StageKeys == {"scraping", "technologies", "performance", "cro"}

----------------------------------------------------------------------------
(* Results of an awaited call: a returned value or a thrown Error          *)

Return(v) == [kind |-> "return", value |-> v, message |-> Undefined]
Throw(m) == [kind |-> "throw", value |-> Null, message |-> m]

----------------------------------------------------------------------------
(* Stage 1: scrapeSite (src/unnamed/part_001)                              *)

ScrapeUpstreams == {"ok", "fault"}

\* Navigation or extraction faults are rethrown as a new Error (catch at
\* the end of scrapeSite); otherwise the extracted data is returned.
scrapeSite(url, up) ==
    IF up = "ok"
    THEN Return([url |-> url, title |-> "Shop", screenshot |-> "data:image/png;base64"])
    ELSE Throw("Falha ao analisar o site " \o url \o ": Navigation timeout")

----------------------------------------------------------------------------
(* Stage 2: detectTechnologies (src/lib/technology-detector.ts)            *)

TechUpstreams == {"found", "none", "fault"}

EmptyTechnologyAnalysis(err) ==
    [technologies |-> <<>>, totalTechnologies |-> 0, error |-> err]

\* Every fault of the BuiltWith lookup is caught inside the function and
\* turned into an empty analysis carrying the error text: the function
\* returns in every case.
detectTechnologies(url, up) ==
    CASE up = "found" ->
            Return([technologies |-> <<[name |-> "Shopify", category |-> "ecommerce"]>>,
                    totalTechnologies |-> 1, error |-> Undefined])
      [] up = "none" -> Return(EmptyTechnologyAnalysis(Undefined))
      [] OTHER -> Return(EmptyTechnologyAnalysis("Erro na requisicao BuiltWith: 500"))

----------------------------------------------------------------------------
(* Stage 3: analyzePerformance (src/lib/performance-analyzer.ts)           *)

\* The PageSpeed answer: the category score (in hundredths of the 0..1
\* score) and the displayValue of the cumulative-layout-shift audit, or an
\* API fault, or no answer within 60 s.
PerfUpstreams ==
    [kind : {"ok"}, score : Scores, cls : ClsDisplayValues \cup {Undefined}]
    \cup [kind : {"fault", "timeout"}, score : {0}, cls : {Undefined}]

createErrorResult(message) ==
    [score |-> 0, cls |-> "-", error |-> message]

\* Every fault is caught inside the function and turned into an error
\* result with score 0: the function returns in every case.
analyzePerformance(url, up) ==
    CASE up.kind = "ok" ->
            Return([score |-> up.score,
                    cls |-> IF up.cls = Undefined THEN "0" ELSE up.cls,
                    error |-> Undefined])
      [] up.kind = "timeout" ->
            Return(createErrorResult("A analise demorou muito tempo (timeout de 60s)."))
      [] OTHER -> Return(createErrorResult("Erro na API: 500"))

----------------------------------------------------------------------------
(* Stage 4: analyzeCRO and getFallbackAnalysis (src/lib/cro-analyzer.ts)   *)

RateLimitMessage == "429 RESOURCE_EXHAUSTED: quota exceeded"
AIErrorMessages == {RateLimitMessage, "503 UNAVAILABLE"}

InsufficientData == "Dados insuficientes para analise de CRO."
EmptyAnswer == "Resposta vazia da IA."
ParseFailure == "Falha ao processar resposta da IA."

\* error.message?.includes('RESOURCE_EXHAUSTED'), over the messages that
\* can reach the catch block of analyzeCRO
IncludesResourceExhausted(message) == message \in {RateLimitMessage}

AIJsonText == "{pontoFortes:[...],oportunidadesMelhoria:[...],scoreCRO:{nota:70}}"
AITexts == {"", "not json", "null", AIJsonText}

\* genAI.models.generateContent either throws or answers with a text
AIOutcomes ==
    [kind : {"throw"}, message : AIErrorMessages, text : {""}]
    \cup [kind : {"text"}, message : {Undefined}, text : AITexts]

AIAnalysis ==
    [pontoFortes |-> <<"Checkout claro">>,
     oportunidadesMelhoria |->
        <<[titulo |-> "Frete", impacto |-> "alto", prioridade |-> 4]>>,
     insightsEstrategicos |-> <<"Invista em prova social.">>,
     scoreCRO |-> [nota |-> 70, justificativa |-> "Analise da IA"],
     error |-> Undefined]

\* JSON.parse(text): the literal null parses to null, the schema-shaped text
\* to the analysis object, anything else throws a SyntaxError
JSONParse(text) ==
    CASE text = "null" -> Return(Null)
      [] text = AIJsonText -> Return(AIAnalysis)
      [] OTHER -> Throw("SyntaxError")

\* parseFloat of a displayValue, in thousandths; "-" is NaN
parseFloat(s) ==
    CASE s = "0" -> [nan |-> FALSE, milli |-> 0]
      [] s = "0.05" -> [nan |-> FALSE, milli |-> 50]
      [] s = "0.1" -> [nan |-> FALSE, milli |-> 100]
      [] s = "0.25" -> [nan |-> FALSE, milli |-> 250]
      [] OTHER -> [nan |-> TRUE, milli |-> 0]

\* (variant: the overall score is a fixed neutral value instead of the
\* performance score)
getFallbackAnalysis_FixedNota(performance, errorMessage) ==
    LET s1 == IF performance.score >= 90
              THEN <<"Excelente pontuacao de performance geral.">> ELSE <<>>
        cls == parseFloat(performance.cls)
        s2 == IF ~cls.nan /\ cls.milli < 100
              THEN <<"Boa estabilidade visual (CLS).">> ELSE <<>>
        pontosFortes == s1 \o s2
        oportunidades ==
            IF performance.score < 50
            THEN <<[titulo |-> "Melhorar Performance Geral",
                    impacto |-> "alto", prioridade |-> 5]>>
            ELSE <<>>
    IN  [pontoFortes |-> IF Len(pontosFortes) > 0 THEN pontosFortes
                         ELSE <<"Site acessivel">>,
         oportunidadesMelhoria |->
            IF Len(oportunidades) > 0 THEN oportunidades
            ELSE <<[titulo |-> "Revisao Manual Necessaria",
                    impacto |-> "medio", prioridade |-> 3]>>,
         insightsEstrategicos |-> <<"Monitore seus Core Web Vitals mensalmente.">>,
         scoreCRO |-> [nota |-> 50,
                       justificativa |-> "Nota baseada puramente em metricas de performance"],
         error |-> errorMessage]

\* (variant: a list stays empty when no rule has filled it)
getFallbackAnalysis_NoDefaults(performance, errorMessage) ==
    LET s1 == IF performance.score >= 90
              THEN <<"Excelente pontuacao de performance geral.">> ELSE <<>>
        cls == parseFloat(performance.cls)
        s2 == IF ~cls.nan /\ cls.milli < 100
              THEN <<"Boa estabilidade visual (CLS).">> ELSE <<>>
        oportunidades ==
            IF performance.score < 50
            THEN <<[titulo |-> "Melhorar Performance Geral",
                    impacto |-> "alto", prioridade |-> 5]>>
            ELSE <<>>
    IN  [pontoFortes |-> s1 \o s2,
         oportunidadesMelhoria |-> oportunidades,
         insightsEstrategicos |-> <<"Monitore seus Core Web Vitals mensalmente.">>,
         scoreCRO |-> [nota |-> performance.score,
                       justificativa |-> "Nota baseada puramente em metricas de performance"],
         error |-> errorMessage]

getFallbackAnalysis(performance, errorMessage) ==
    LET s1 == IF performance.score >= 90
              THEN <<"Excelente pontuacao de performance geral.">> ELSE <<>>
        cls == parseFloat(performance.cls)
        s2 == IF ~cls.nan /\ cls.milli < 100
              THEN <<"Boa estabilidade visual (CLS).">> ELSE <<>>
        pontosFortes == s1 \o s2
        oportunidades ==
            IF performance.score < 50
            THEN <<[titulo |-> "Melhorar Performance Geral",
                    impacto |-> "alto", prioridade |-> 5]>>
            ELSE <<>>
    IN  [pontoFortes |-> IF Len(pontosFortes) > 0 THEN pontosFortes
                         ELSE <<"Site acessivel">>,
         oportunidadesMelhoria |->
            IF Len(oportunidades) > 0 THEN oportunidades
            ELSE <<[titulo |-> "Revisao Manual Necessaria",
                    impacto |-> "medio", prioridade |-> 3]>>,
         insightsEstrategicos |-> <<"Monitore seus Core Web Vitals mensalmente.">>,
         scoreCRO |-> [nota |-> performance.score,
                       justificativa |-> "Nota baseada puramente em metricas de performance"],
         error |-> errorMessage]

\* The body of the try block of analyzeCRO: the value it returns or the
\* error it throws into the catch block.
analyzeCROTry(sd, pd, ai) ==
    IF sd = Null \/ pd = Null THEN Throw(InsufficientData)
    ELSE IF ai.kind = "throw" THEN Throw(ai.message)
    ELSE IF ai.text = "" THEN Throw(EmptyAnswer)
    ELSE IF JSONParse(ai.text).kind = "throw" THEN Throw(ParseFailure)
    ELSE JSONParse(ai.text)

\* The catch block of analyzeCRO: the fallback, built from performanceData.
\* getFallbackAnalysis dereferences performance, so a null performanceData
\* makes the catch block itself throw a TypeError.
\* (variant: only a rate-limit failure falls back, any other error is
\* rethrown to the caller)
analyzeCROCatch_Rethrow(pd, message) ==
    IF pd = Null THEN Throw("TypeError: Cannot read properties of null")
    ELSE IF IncludesResourceExhausted(message)
    THEN Return(getFallbackAnalysis(pd, "Limite de requisicoes da IA excedido."))
    ELSE Throw(message)

analyzeCROCatch(pd, message) ==
    IF pd = Null THEN Throw("TypeError: Cannot read properties of null")
    ELSE IF IncludesResourceExhausted(message)
    THEN Return(getFallbackAnalysis(pd, "Limite de requisicoes da IA excedido."))
    ELSE Return(getFallbackAnalysis(pd, "Erro na analise inteligente: " \o message))

analyzeCRO(sd, techs, pd, ai) ==
    LET t == analyzeCROTry(sd, pd, ai)
    IN  IF t.kind = "return" THEN t ELSE analyzeCROCatch(pd, t.message)

----------------------------------------------------------------------------
(* formSchema (src/unnamed/part_008), over the sample bodies               *)

\* z.string().min(n)
MinLength(str, n) == Len(str) >= n
\* z.string().email(): the sample strings that are well-formed addresses
IsEmail(str) == str \in {"ana@example.com"}
\* z.string().url(): the sample strings the URL constructor accepts
IsUrl(str) == str \in {ValidUrl, "ftp://shop.example.com"}
\* url.startsWith('http://') || url.startsWith('https://')
HasHttpScheme(str) == str \in {ValidUrl}
\* /^\(\d{2}\) \d{5}-\d{4}$/
MatchesPhone(str) == str \in {"(11) 98765-4321"}

\* (variant: the websiteUrl field is not validated)
FieldErrors_NoUrl(b) ==
    {f \in {"name", "email", "empresa", "phone"} :
        CASE f = "name" -> ~MinLength(b.name, 3)
          [] f = "email" -> ~IsEmail(b.email)
          [] f = "empresa" -> ~MinLength(b.empresa, 2)
          [] OTHER -> ~(b.phone = Undefined \/ b.phone = "" \/ MatchesPhone(b.phone))}

\* formSchema.safeParse(body): the set of fields with an error
FieldErrors(b) ==
    {f \in {"name", "email", "empresa", "websiteUrl", "phone"} :
        CASE f = "name" -> ~MinLength(b.name, 3)
          [] f = "email" -> ~IsEmail(b.email)
          [] f = "empresa" -> ~MinLength(b.empresa, 2)
          [] f = "websiteUrl" -> ~(IsUrl(b.websiteUrl) /\ HasHttpScheme(b.websiteUrl))
          [] OTHER -> ~(b.phone = Undefined \/ b.phone = "" \/ MatchesPhone(b.phone))}

----------------------------------------------------------------------------
(* POST /api/analyze (src/app/api/analyze/route.ts)                        *)

NoErrors == [k \in StageKeys |-> Undefined]

NoUpstream == [k \in StageKeys |-> "none"]

SkippedMessage ==
    "Analise de CRO pulada devido a falhas nas etapas anteriores (Scraping ou Performance)."

\* The order of the awaited statements of the handler: the position that
\* follows each position.
\* (variant: performance scoring is awaited before technology detection)
NextPc_PerformanceFirst(p) ==
    CASE p = "parse" -> "a"
      [] p = "a" -> "a_await"
      [] p = "a_await" -> "c"
      [] p = "c" -> "c_await"
      [] p = "c_await" -> "b"
      [] p = "b" -> "b_await"
      [] p = "b_await" -> "d"
      [] p = "d" -> "d_await"
      [] p = "d_await" -> "respond"
      [] OTHER -> "done"

NextPc(p) ==
    CASE p = "parse" -> "a"
      [] p = "a" -> "a_await"
      [] p = "a_await" -> "b"
      [] p = "b" -> "b_await"
      [] p = "b_await" -> "c"
      [] p = "c" -> "c_await"
      [] p = "c_await" -> "d"
      [] p = "d" -> "d_await"
      [] p = "d_await" -> "respond"
      [] OTHER -> "done"

\* try { x = await stage(...) }: the variable is assigned only on return
TryAssign(old, result) ==
    IF result.kind = "return" THEN result.value ELSE old

\* catch (error) { errors.<key> = error.message }
\* (variant: every stage error is filed under the same key)
CatchStage_SharedKey(errs, key, result) ==
    IF result.kind = "throw" THEN [errs EXCEPT !["cro"] = result.message] ELSE errs

CatchStage(errs, key, result) ==
    IF result.kind = "throw" THEN [errs EXCEPT ![key] = result.message] ELSE errs

\* if (scrapedData && performanceData)
\* (variant: one of the two payloads is enough)
HasEnoughData_Either(sd, pd) == sd # Null \/ pd # Null

HasEnoughData(sd, pd) == sd # Null /\ pd # Null

\* (variant: the empty list is always passed)
TechList_AlwaysEmpty(td) == <<>>

\* technologiesData?.technologies || []
TechList(td) == IF td = Null THEN <<>> ELSE td.technologies

Call(stage) == [ev |-> "call", stage |-> stage]
Outcome(stage, result) == [ev |-> result.kind, stage |-> stage]

EmptyResponse ==
    [http |-> 0, status |-> Undefined, message |-> Undefined,
     analysisId |-> Undefined, data |-> Null, errors |-> Null,
     fieldErrors |-> {}, error |-> Undefined]

\* A new request arrives: the handler draws a fresh identifier and starts
\* with empty partial results.
POSTStart(b, id) ==
    /\ pc \in {"idle", "done"}
    /\ requests < MaxRequests
    /\ requests' = requests + 1
    /\ body' = b
    /\ analysisId' = id
    /\ pc' = "parse"
    /\ scrapedData' = Null
    /\ technologiesData' = Null
    /\ performanceData' = Null
    /\ croAnalysis' = Null
    /\ errors' = NoErrors
    /\ upstream' = NoUpstream
    /\ log' = <<>>
    /\ response' = Null
    /\ croInput' = Null
    /\ UNCHANGED <<boot, dash, attempted, retry, store, getResp>>

\* 1. request.json() and formSchema.safeParse(body)
POSTValidate ==
    /\ pc = "parse"
    /\ IF ~body.json
       THEN \* request.json() throws: the outer catch answers 500
            /\ response' = [EmptyResponse EXCEPT
                              !.http = 500, !.status = "error",
                              !.message = "Erro interno no servidor ao processar analise.",
                              !.error = "SyntaxError: Unexpected token in JSON"]
            /\ pc' = "done"
       ELSE IF FieldErrors(body) # {}
       THEN /\ response' = [EmptyResponse EXCEPT
                              !.http = 400, !.status = "error",
                              !.message = "Dados invalidos",
                              !.fieldErrors = FieldErrors(body)]
            /\ pc' = "done"
       ELSE /\ response' = response
            /\ pc' = NextPc(pc)
    /\ UNCHANGED <<boot, dash, attempted, retry, croInput,
                   requests, body, analysisId, scrapedData, technologiesData,
                   performanceData, croAnalysis, errors, upstream, log, store,
                   getResp>>

\* a) scrapedData = await scrapeSite(websiteUrl)
CallScrapeSite ==
    /\ pc = "a"
    /\ log' = Append(log, Call("scraping"))
    /\ pc' = NextPc(pc)
    /\ UNCHANGED <<boot, dash, attempted, retry, croInput,
                   requests, body, analysisId, scrapedData, technologiesData,
                   performanceData, croAnalysis, errors, upstream, response,
                   store, getResp>>

ReturnScrapeSite(up) ==
    /\ pc = "a_await"
    /\ LET r == scrapeSite(body.websiteUrl, up)
       IN  /\ scrapedData' = TryAssign(scrapedData, r)
           /\ errors' = CatchStage(errors, "scraping", r)
           /\ log' = Append(log, Outcome("scraping", r))
    /\ upstream' = [upstream EXCEPT !["scraping"] = up]
    /\ pc' = NextPc(pc)
    /\ UNCHANGED <<boot, dash, attempted, retry, croInput,
                   requests, body, analysisId, technologiesData,
                   performanceData, croAnalysis, response, store, getResp>>

\* b) technologiesData = await detectTechnologies(websiteUrl)
CallDetectTechnologies ==
    /\ pc = "b"
    /\ log' = Append(log, Call("technologies"))
    /\ pc' = NextPc(pc)
    /\ UNCHANGED <<boot, dash, attempted, retry, croInput,
                   requests, body, analysisId, scrapedData, technologiesData,
                   performanceData, croAnalysis, errors, upstream, response,
                   store, getResp>>

ReturnDetectTechnologies(up) ==
    /\ pc = "b_await"
    /\ LET r == detectTechnologies(body.websiteUrl, up)
       IN  /\ technologiesData' = TryAssign(technologiesData, r)
           /\ errors' = CatchStage(errors, "technologies", r)
           /\ log' = Append(log, Outcome("technologies", r))
    /\ upstream' = [upstream EXCEPT !["technologies"] = up]
    /\ pc' = NextPc(pc)
    /\ UNCHANGED <<boot, dash, attempted, retry, croInput,
                   requests, body, analysisId, scrapedData, performanceData,
                   croAnalysis, response, store, getResp>>

\* c) performanceData = await analyzePerformance(websiteUrl)
CallAnalyzePerformance ==
    /\ pc = "c"
    /\ log' = Append(log, Call("performance"))
    /\ pc' = NextPc(pc)
    /\ UNCHANGED <<boot, dash, attempted, retry, croInput,
                   requests, body, analysisId, scrapedData, technologiesData,
                   performanceData, croAnalysis, errors, upstream, response,
                   store, getResp>>

ReturnAnalyzePerformance(up) ==
    /\ pc = "c_await"
    /\ LET r == analyzePerformance(body.websiteUrl, up)
       IN  /\ performanceData' = TryAssign(performanceData, r)
           /\ errors' = CatchStage(errors, "performance", r)
           /\ log' = Append(log, Outcome("performance", r))
    /\ upstream' = [upstream EXCEPT !["performance"] = up.kind]
    /\ pc' = NextPc(pc)
    /\ UNCHANGED <<boot, dash, attempted, retry, croInput,
                   requests, body, analysisId, scrapedData, technologiesData,
                   croAnalysis, response, store, getResp>>

\* d) if (scrapedData && performanceData) { ... await analyzeCRO(...) }
\*    else { errors.cro = '... pulada ...' }
CallAnalyzeCRO ==
    /\ pc = "d"
    /\ IF HasEnoughData(scrapedData, performanceData)
       THEN /\ log' = Append(log, Call("cro"))
            /\ croInput' = [scrapedData |-> scrapedData,
                            technologies |-> TechList(technologiesData),
                            performanceData |-> performanceData]
            /\ errors' = errors
            /\ pc' = NextPc(pc)
       ELSE /\ log' = log
            /\ croInput' = croInput
            /\ errors' = [errors EXCEPT !["cro"] = SkippedMessage]
            /\ pc' = "respond"
    /\ UNCHANGED <<boot, dash, attempted, retry,
                   requests, body, analysisId, scrapedData, technologiesData,
                   performanceData, croAnalysis, upstream, response, store,
                   getResp>>

ReturnAnalyzeCRO(ai) ==
    /\ pc = "d_await"
    /\ LET r == analyzeCRO(croInput.scrapedData, croInput.technologies,
                           croInput.performanceData, ai)
       IN  /\ croAnalysis' = TryAssign(croAnalysis, r)
           /\ errors' = CatchStage(errors, "cro", r)
           /\ log' = Append(log, Outcome("cro", r))
    /\ upstream' = [upstream EXCEPT !["cro"] =
                       IF ai.kind = "throw" THEN ai.message ELSE ai.text]
    /\ pc' = NextPc(pc)
    /\ UNCHANGED <<boot, dash, attempted, retry, croInput,
                   requests, body, analysisId, scrapedData, technologiesData,
                   performanceData, response, store, getResp>>

\* 3. return NextResponse.json({ analysisId, status: 'completed', ... })
POSTRespond ==
    /\ pc = "respond"
    /\ response' =
         [EmptyResponse EXCEPT
            !.http = 200,
            !.analysisId = analysisId,
            !.status = "completed",
            !.data = [scrapedData |->
                         IF scrapedData # Null
                         THEN [scrapedData EXCEPT !.screenshot = "... (base64 omitido no log)"]
                         ELSE Null,
                      screenshot |->
                         IF scrapedData # Null THEN scrapedData.screenshot
                         ELSE Undefined,
                      technologies |-> technologiesData,
                      performance |-> performanceData,
                      cro |-> croAnalysis],
            !.errors = IF \E k \in StageKeys : errors[k] # Undefined
                       THEN errors ELSE Null]
    /\ pc' = "done"
    /\ UNCHANGED <<boot, dash, attempted, retry, croInput,
                   requests, body, analysisId, scrapedData, technologiesData,
                   performanceData, croAnalysis, errors, upstream, log, store,
                   getResp>>

----------------------------------------------------------------------------
(* GET /api/analyze/[analysisId] (src/unnamed/part_002)                    *)

ESTIMATED_TOTAL_TIME == 90
totalSteps == 4

\* Date.now() - analysis.createdAt.getTime(), in milliseconds
ElapsedSamples == {0, 1499, 1500, 89500, 89501, 90000, 200000}

Num(n) == [num |-> n]

\* Math.round of a value given in thousandths
RoundMilli(n) == (n + 500) \div 1000

Max(a, b) == IF a >= b THEN a ELSE b

\* (variant: an errored analysis reports no completed step)
completedSteps_ResetOnError(analysis) ==
    IF analysis.status = "error" THEN 0
    ELSE (IF analysis.scrapedData # Null THEN 1 ELSE 0)
         + (IF analysis.technologiesData # Null THEN 1 ELSE 0)
         + (IF analysis.performanceData # Null THEN 1 ELSE 0)
         + (IF analysis.croInsights # Null THEN 1 ELSE 0)

\* (variant: counting stops at the first empty slot)
completedSteps_StopAtFirstAbsent(analysis) ==
    IF analysis.scrapedData = Null THEN 0
    ELSE IF analysis.technologiesData = Null THEN 1
    ELSE IF analysis.performanceData = Null THEN 2
    ELSE IF analysis.croInsights = Null THEN 3
    ELSE 4

completedSteps(analysis) ==
    (IF analysis.scrapedData # Null THEN 1 ELSE 0)
    + (IF analysis.technologiesData # Null THEN 1 ELSE 0)
    + (IF analysis.performanceData # Null THEN 1 ELSE 0)
    + (IF analysis.croInsights # Null THEN 1 ELSE 0)

currentStepMessage(analysis) ==
    IF analysis.status = "error" THEN "Erro no processamento."
    ELSE IF analysis.croInsights # Null THEN "Analise concluida!"
    ELSE IF analysis.performanceData # Null THEN "Gerando insights com IA..."
    ELSE IF analysis.technologiesData # Null THEN "Analisando performance..."
    ELSE IF analysis.scrapedData # Null THEN "Detectando tecnologias..."
    ELSE "Coletando dados do site..."

\* (variant: the share is taken of five steps)
percentage_OfFiveSteps(analysis) ==
    RoundMilli((completedSteps(analysis) * 100 * 1000) \div (totalSteps + 1))

\* Math.round((completedSteps / totalSteps) * 100)
percentage(analysis) ==
    RoundMilli((completedSteps(analysis) * 100 * 1000) \div totalSteps)

\* (variant: the remaining time is not clamped at 0)
estimatedTimeRemaining_NoClamp(analysis, elapsedMs) ==
    IF analysis.status = "processing"
    THEN Num(RoundMilli(ESTIMATED_TOTAL_TIME * 1000 - elapsedMs))
    ELSE IF analysis.status = "completed" THEN Num(0)
    ELSE Null

estimatedTimeRemaining(analysis, elapsedMs) ==
    IF analysis.status = "processing"
    THEN Num(Max(0, RoundMilli(ESTIMATED_TOTAL_TIME * 1000 - elapsedMs)))
    ELSE IF analysis.status = "completed" THEN Num(0)
    ELSE Null

\* JSON.parse of a stored blob
ParseBlob(blob) == IF blob # Null THEN blob.json ELSE Null

EmptyStatus ==
    [http |-> 0, status |-> Undefined, message |-> Undefined, id |-> Undefined,
     progress |-> Null, data |-> Null, error |-> Undefined,
     completedAt |-> Null, estimatedTimeRemaining |-> Null]

GETResponse(analysis, dbFault, elapsedMs) ==
    IF dbFault
    THEN [EmptyStatus EXCEPT !.http = 500, !.status = "error",
                             !.message = "Erro interno ao buscar status."]
    ELSE IF analysis = Null
    THEN [EmptyStatus EXCEPT !.http = 404, !.status = "error",
                             !.message = "Analise nao encontrada."]
    ELSE [EmptyStatus EXCEPT
            !.http = 200,
            !.id = analysis.id,
            !.status = analysis.status,
            !.progress = [current |-> completedSteps(analysis),
                          total |-> totalSteps,
                          percentage |-> percentage(analysis),
                          currentStep |-> currentStepMessage(analysis)],
            !.data = [scrapedData |-> ParseBlob(analysis.scrapedData),
                      technologiesData |-> ParseBlob(analysis.technologiesData),
                      performanceData |-> ParseBlob(analysis.performanceData),
                      croInsights |-> ParseBlob(analysis.croInsights)],
            !.error = analysis.errorMessage,
            !.completedAt = analysis.completedAt,
            !.estimatedTimeRemaining = estimatedTimeRemaining(analysis, elapsedMs)]

\* (variant: serving the request stamps the row that was read)
GET_StampsRecord(id, dbFault, elapsedMs) ==
    /\ getResp' = GETResponse(store[id], dbFault, elapsedMs)
    /\ store' = IF store[id] = Null THEN store
                ELSE [store EXCEPT ![id].completedAt = [at |-> "polledAt"]]
    /\ UNCHANGED <<boot, dash, attempted, retry, croInput,
                   requests, body, analysisId, pc, scrapedData,
                   technologiesData, performanceData, croAnalysis, errors,
                   upstream, log, response>>

\* A status request: prisma.analysis.findUnique, then the progress view.
GET(id, dbFault, elapsedMs) ==
    /\ getResp' = GETResponse(store[id], dbFault, elapsedMs)
    /\ UNCHANGED <<boot, dash, attempted, retry, croInput,
                   requests, body, analysisId, pc, scrapedData,
                   technologiesData, performanceData, croAnalysis, errors,
                   upstream, log, response, store>>

----------------------------------------------------------------------------
(* retryWithBackoff (src/lib/retry-helper.ts)                              *)

MaxRetriesBound == 3

DefaultMaxRetries == 3
DefaultInitialDelay == 1000

InitialDelays == {250, 1000}

\* options: each field is either omitted (Null) or a number
RetryOptions ==
    [maxRetries : {Null} \cup {Num(n) : n \in 0..MaxRetriesBound},
     initialDelay : {Null} \cup {Num(d) : d \in InitialDelays}]

\* The errors the work function may reject with: message, status and code
\* (0 where the property is not set).
WorkErrors ==
    { [message |-> RateLimitMessage, status |-> 0, code |-> 0],
      [message |-> "Too Many Requests", status |-> 429, code |-> 0],
      [message |-> "Quota exceeded", status |-> 0, code |-> 429],
      [message |-> "503 UNAVAILABLE", status |-> 503, code |-> 0],
      [message |-> "Falha ao processar resposta da IA.", status |-> 0, code |-> 0] }

\* One invocation of fn(): it resolves with a value or rejects with an error
WorkOutcomes ==
    {[kind |-> "return", error |-> Null]}
    \cup {[kind |-> "throw", error |-> e] : e \in WorkErrors}

\* (variant: every error is taken for a rate limit)
isRateLimitError_AnyError(error) == TRUE

isRateLimitError(error) ==
    \/ IncludesResourceExhausted(error.message)
    \/ error.status = 429
    \/ error.code = 429

\* (variant: the last allowed retry is not made)
ShouldRethrow_OffByOne(error, attempt, maxRetries) ==
    ~isRateLimitError(error) \/ attempt >= maxRetries

\* (variant: one retry more than maxRetries is made)
ShouldRethrow_OneRetryTooMany(error, attempt, maxRetries) ==
    ~isRateLimitError(error) \/ attempt > maxRetries + 1

\* if (!isRateLimitError || attempt > maxRetries) throw error
ShouldRethrow(error, attempt, maxRetries) ==
    ~isRateLimitError(error) \/ attempt > maxRetries

\* (variant: the exponent is the attempt number itself)
BackoffDelay_ExponentOff(initialDelay, attempt) == initialDelay * 2^attempt

\* initialDelay * Math.pow(2, attempt - 1)
BackoffDelay(initialDelay, attempt) == initialDelay * 2^(attempt - 1)

RetryIdle ==
    [pc |-> "idle", maxRetries |-> 0, initialDelay |-> 0, attempt |-> 0,
     calls |-> 0, outcomes |-> <<>>, waits |-> <<>>, result |-> Null]

appVars == <<requests, body, analysisId, pc, scrapedData, technologiesData,
             performanceData, croAnalysis, errors, upstream, log, response,
             store, getResp, croInput, attempted, dash, boot>>

\* const { maxRetries = 3, initialDelay = 1000 } = options; let attempt = 0
RetryStart(options) ==
    /\ retry.pc = "idle"
    /\ retry' = [RetryIdle EXCEPT
                   !.pc = "call",
                   !.maxRetries = IF options.maxRetries = Null
                                  THEN DefaultMaxRetries
                                  ELSE options.maxRetries.num,
                   !.initialDelay = IF options.initialDelay = Null
                                    THEN DefaultInitialDelay
                                    ELSE options.initialDelay.num]
    /\ UNCHANGED appVars

\* One turn of the loop: return await fn(), or the catch block up to the
\* point where it rethrows or starts to wait.
RetryInvoke(out) ==
    /\ retry.pc = "call"
    /\ LET called == [retry EXCEPT !.calls = @ + 1,
                                   !.outcomes = Append(@, out)]
           attempt == retry.attempt + 1
       IN  IF out.kind = "return"
           THEN retry' = [called EXCEPT !.pc = "done", !.result = out]
           ELSE IF ShouldRethrow(out.error, attempt, retry.maxRetries)
           THEN retry' = [called EXCEPT !.pc = "done", !.attempt = attempt,
                                        !.result = out]
           ELSE retry' = [called EXCEPT
                            !.pc = "sleep", !.attempt = attempt,
                            !.waits = Append(@, BackoffDelay(retry.initialDelay,
                                                             attempt))]
    /\ UNCHANGED appVars

\* the timer of await new Promise(resolve => setTimeout(resolve, delay)) fires
RetryWake ==
    /\ retry.pc = "sleep"
    /\ retry' = [retry EXCEPT !.pc = "call"]
    /\ UNCHANGED appVars

----------------------------------------------------------------------------
(* Module evaluation: env (validateEnv, src/lib/cro-analyzer.ts:190-230)   *)
(* and gemini-client (src/unnamed/part_000)                                *)

requiredEnvs == <<"GEMINI_API_KEY", "BUILTWITH_API_KEY", "PAGESPEED_API_KEY">>

RequiredNames == {requiredEnvs[i] : i \in DOMAIN requiredEnvs}

EnvNames == RequiredNames \cup {"GOOGLE_API_KEY"}

\* the value a variable holds when it is set and not empty
SecretOf(name) == "value-of-" \o name

\* process.env: each variable is unset, empty or set
ProcessEnvs ==
    {pe \in [EnvNames -> {Undefined, ""} \cup {SecretOf(n) : n \in EnvNames}] :
        \A n \in EnvNames : pe[n] \in {Undefined, "", SecretOf(n)}}

\* truthiness of a string | undefined
Truthy(value) == value # Undefined /\ value # ""

\* missingEnvs.join(', ')
RECURSIVE Join(_)
Join(names) ==
    IF names = <<>> THEN ""
    ELSE IF Len(names) = 1 THEN names[1]
    ELSE names[1] \o ", " \o Join(Tail(names))

MissingEnvsMessage(names) ==
    "Variaveis de ambiente faltando: " \o Join(names)
        \o "\nVerifique se o arquivo .env.local esta configurado corretamente."

\* (variant: an empty value counts as present)
validateEnv_UnsetOnly(processEnv) ==
    LET IsMissing(name) == processEnv[name] = Undefined
        missingEnvs == SelectSeq(requiredEnvs, IsMissing)
        config == [name \in {n \in RequiredNames : ~IsMissing(n)} |-> processEnv[name]]
    IN  IF Len(missingEnvs) > 0
        THEN Throw(MissingEnvsMessage(missingEnvs))
        ELSE Return(config)

validateEnv(processEnv) ==
    LET IsMissing(name) == ~Truthy(processEnv[name])
        missingEnvs == SelectSeq(requiredEnvs, IsMissing)
        config == [name \in {n \in RequiredNames : ~IsMissing(n)} |-> processEnv[name]]
    IN  IF Len(missingEnvs) > 0
        THEN Throw(MissingEnvsMessage(missingEnvs))
        ELSE Return(config)

\* env.NAME: reading a property the object does not have gives undefined
EnvGet(env, name) == IF name \in DOMAIN env THEN env[name] ELSE Undefined

GoogleKeyMessage == "GOOGLE_API_KEY nao esta configurada nas variaveis de ambiente."

bootFrame == <<requests, body, analysisId, pc, scrapedData, technologiesData,
               performanceData, croAnalysis, errors, upstream, log, response,
               store, getResp, croInput, retry, attempted, dash>>

\* The server process starts with some environment.
StartProcess(processEnv) ==
    /\ boot = Null
    /\ boot' = [pc |-> "env", processEnv |-> processEnv, env |-> Null,
                genAI |-> Null, error |-> Undefined]
    /\ UNCHANGED bootFrame

\* export const env = validateEnv(), evaluated when the module is first
\* imported
LoadEnvModule ==
    /\ boot # Null
    /\ boot.pc = "env"
    /\ LET r == validateEnv(boot.processEnv)
       IN  boot' = IF r.kind = "throw"
                   THEN [boot EXCEPT !.pc = "failed", !.error = r.message]
                   ELSE [boot EXCEPT !.pc = "client", !.env = r.value]
    /\ UNCHANGED bootFrame

\* Evaluation of gemini-client, which imports env.
LoadGeminiClient ==
    /\ boot # Null
    /\ boot.pc = "client"
    /\ boot' = IF ~Truthy(EnvGet(boot.env, "GOOGLE_API_KEY"))
               THEN [boot EXCEPT !.pc = "failed", !.error = GoogleKeyMessage]
               ELSE [boot EXCEPT
                       !.pc = "loaded",
                       !.genAI = [apiKey |-> EnvGet(boot.env, "GOOGLE_API_KEY")]]
    /\ UNCHANGED bootFrame

----------------------------------------------------------------------------
(* The writer of the Analysis rows.  The status endpoint and the dashboard *)
(* read rows of the Analysis table (src/unnamed/part_007), but no source   *)
(* file writes them; the writer below follows the data model and the       *)
(* execution contract of the specification (sections 3 and 4.2): a row is  *)
(* created at 'processing', each stage slot is written at most once, in    *)
(* stage order, a failed stage leaves its slot absent, insights are        *)
(* written only when content and performance are present, and the row is   *)
(* finalized once.                                                         *)

Slots == {"scrapedData", "technologiesData", "performanceData", "croInsights"}

SlotIndex(slot) ==
    CASE slot = "scrapedData" -> 1
      [] slot = "technologiesData" -> 2
      [] slot = "performanceData" -> 3
      [] OTHER -> 4

\* JSON.stringify of the payload a stage produced
Blob(payload) == [json |-> payload]

SamplePayload(slot) ==
    CASE slot = "scrapedData" -> scrapeSite(ValidUrl, "ok").value
      [] slot = "technologiesData" -> detectTechnologies(ValidUrl, "found").value
      [] slot = "performanceData" ->
            analyzePerformance(ValidUrl, [kind |-> "ok", score |-> 89, cls |-> "0.05"]).value
      [] OTHER -> AIAnalysis

NewAnalysis(id) ==
    [id |-> id, status |-> "processing", errorMessage |-> Undefined,
     completedAt |-> Null, scrapedData |-> Null, technologiesData |-> Null,
     performanceData |-> Null, croInsights |-> Null]

CreateRecord(id) ==
    /\ store[id] = Null
    /\ store' = [store EXCEPT ![id] = NewAnalysis(id)]
    /\ UNCHANGED <<boot, dash, attempted, retry, croInput,
                   requests, body, analysisId, pc, scrapedData,
                   technologiesData, performanceData, croAnalysis, errors,
                   upstream, log, response, getResp>>

\* Stage number attempted[id] + 1 succeeds and its payload is persisted.
WriteStage(id, slot) ==
    /\ store[id] # Null
    /\ store[id].status = "processing"
    /\ SlotIndex(slot) = attempted[id] + 1
    /\ slot = "croInsights" =>
          (store[id].scrapedData # Null /\ store[id].performanceData # Null)
    /\ store' = [store EXCEPT ![id][slot] = Blob(SamplePayload(slot))]
    /\ attempted' = [attempted EXCEPT ![id] = @ + 1]
    /\ UNCHANGED <<boot, dash, retry, croInput,
                   requests, body, analysisId, pc, scrapedData,
                   technologiesData, performanceData, croAnalysis, errors,
                   upstream, log, response, getResp>>

\* Stage number attempted[id] + 1 fails: no payload is persisted and the run
\* moves on.  The insight stage is attempted only with its prerequisites.
FailStage(id) ==
    /\ store[id] # Null
    /\ store[id].status = "processing"
    /\ attempted[id] < 4
    /\ attempted[id] = 3 =>
          (store[id].scrapedData # Null /\ store[id].performanceData # Null)
    /\ attempted' = [attempted EXCEPT ![id] = @ + 1]
    /\ UNCHANGED <<boot, dash, retry, croInput,
                   requests, body, analysisId, pc, scrapedData,
                   technologiesData, performanceData, croAnalysis, errors,
                   upstream, log, response, store, getResp>>

Finalize(id, status) ==
    /\ store[id] # Null
    /\ store[id].status = "processing"
    /\ status = "completed" => store[id].croInsights # Null
    /\ store' = [store EXCEPT
                   ![id].status = status,
                   ![id].completedAt = [at |-> "completedAt"],
                   ![id].errorMessage =
                       IF status = "error" THEN "Falha na analise." ELSE Undefined]
    /\ UNCHANGED <<boot, dash, attempted, retry, croInput,
                   requests, body, analysisId, pc, scrapedData,
                   technologiesData, performanceData, croAnalysis, errors,
                   upstream, log, response, getResp>>

----------------------------------------------------------------------------
(* DashboardPage (src/unnamed/part_003): the polling effect                *)

MaxFetches == 3

\* elapsed times at which the server answers the dashboard's requests
DashElapsedSamples == {1500}

TerminalStatuses == {"completed", "error"}

\* const data = await res.json(): the body, without the HTTP status
ResponseBody(resp) == [resp EXCEPT !.http = 0]

\* { status: 'error', error: 'Analise nao encontrada.' } as any
NotFoundData ==
    [EmptyStatus EXCEPT !.status = "error", !.error = "Analise nao encontrada."]

dashFrame == <<requests, body, analysisId, pc, scrapedData, technologiesData,
               performanceData, croAnalysis, errors, upstream, log, response,
               store, getResp, croInput, retry, attempted, boot>>

\* fetch(`/api/analyze/${analysisId}`) is sent; afterTerminal records
\* whether a terminal observation had already been made at that moment
SendFetch(d) ==
    [d EXCEPT !.fetches = Append(@, [state |-> "sent", resp |-> Null,
                                     afterTerminal |-> d.terminalSeen])]

\* params.then((p) => setAnalysisId(p.analysisId)): the polling effect is
\* scheduled because analysisId changed
MountDashboard(id) ==
    /\ dash = Null
    /\ dash' = [analysisId |-> id, isPolling |-> TRUE, interval |-> FALSE,
                effectPending |-> TRUE, analysisData |-> Null,
                fetches |-> <<>>, terminalSeen |-> FALSE]
    /\ UNCHANGED dashFrame

\* The effect with dependencies [analysisId, isPolling] runs: cleanup of the
\* previous run, the immediate fetchStatus(), and setInterval when isPolling.
RunPollingEffect ==
    /\ dash # Null
    /\ dash.effectPending
    /\ Len(dash.fetches) < MaxFetches
    /\ dash' = [SendFetch(dash) EXCEPT !.effectPending = FALSE,
                                      !.interval = dash.isPolling]
    /\ UNCHANGED dashFrame

\* setInterval(fetchStatus, 3000) fires
IntervalTick ==
    /\ dash # Null
    /\ dash.interval
    /\ Len(dash.fetches) < MaxFetches
    /\ dash' = SendFetch(dash)
    /\ UNCHANGED dashFrame

\* The status endpoint serves request n of the dashboard.
ServeFetch(n, dbFault, elapsedMs) ==
    /\ dash # Null
    /\ n \in DOMAIN dash.fetches
    /\ dash.fetches[n].state = "sent"
    /\ dash' = [dash EXCEPT
                  !.fetches[n].state = "answered",
                  !.fetches[n].resp =
                      GETResponse(store[dash.analysisId], dbFault, elapsedMs)]
    /\ UNCHANGED dashFrame

\* The continuation of fetchStatus after await fetch(...)
ApplyResponse(d, resp) ==
    IF resp.http = 404
    THEN [d EXCEPT !.isPolling = FALSE,
                   !.effectPending = d.effectPending \/ d.isPolling,
                   !.analysisData = NotFoundData,
                   !.terminalSeen = TRUE]
    ELSE IF resp.status \in TerminalStatuses
    THEN [d EXCEPT !.analysisData = ResponseBody(resp),
                   !.isPolling = FALSE,
                   !.effectPending = d.effectPending \/ d.isPolling,
                   !.interval = FALSE,
                   !.terminalSeen = TRUE]
    ELSE [d EXCEPT !.analysisData = ResponseBody(resp)]

\* The answer to request n arrives, in any order with the other answers.
ReceiveFetch(n) ==
    /\ dash # Null
    /\ n \in DOMAIN dash.fetches
    /\ dash.fetches[n].state = "answered"
    /\ dash' = [ApplyResponse(dash, dash.fetches[n].resp) EXCEPT
                  !.fetches[n].state = "settled",
                  !.fetches[n].resp = Null]
    /\ UNCHANGED dashFrame

\* fetch rejects (network error): the catch block only logs
FetchFails(n) ==
    /\ dash # Null
    /\ n \in DOMAIN dash.fetches
    /\ dash.fetches[n].state = "sent"
    /\ dash' = [dash EXCEPT !.fetches[n].state = "settled"]
    /\ UNCHANGED dashFrame

----------------------------------------------------------------------------
(* The system                                                              *)

Init ==
    /\ requests = 0
    /\ body = NoBody
    /\ analysisId = Undefined
    /\ pc = "idle"
    /\ scrapedData = Null
    /\ technologiesData = Null
    /\ performanceData = Null
    /\ croAnalysis = Null
    /\ errors = NoErrors
    /\ upstream = NoUpstream
    /\ log = <<>>
    /\ response = Null
    /\ store = [id \in AnalysisIds |-> Null]
    /\ getResp = Null
    /\ croInput = Null
    /\ retry = RetryIdle
    /\ attempted = [id \in AnalysisIds |-> 0]
    /\ dash = Null
    /\ boot = Null

POSTStep ==
    \/ POSTValidate
    \/ CallScrapeSite
    \/ \E up \in ScrapeUpstreams : ReturnScrapeSite(up)
    \/ CallDetectTechnologies
    \/ \E up \in TechUpstreams : ReturnDetectTechnologies(up)
    \/ CallAnalyzePerformance
    \/ \E up \in PerfUpstreams : ReturnAnalyzePerformance(up)
    \/ CallAnalyzeCRO
    \/ \E ai \in AIOutcomes : ReturnAnalyzeCRO(ai)
    \/ POSTRespond

Next ==
    \/ \E b \in Bodies, id \in AnalysisIds : POSTStart(b, id)
    \/ POSTStep
    \/ \E id \in AnalysisIds, dbFault \in BOOLEAN, ms \in ElapsedSamples :
          GET(id, dbFault, ms)

Spec == Init /\ [][Next]_vars

\* Every awaited call of the handler returns or throws, and the event loop
\* then runs the continuation: a started request is served to its response.
FairSpec == Spec /\ WF_vars(POSTStep)

\* One execution of retryWithBackoff over every choice of options and every
\* behaviour of the work function.  No module of the application calls
\* retryWithBackoff, so its steps are not steps of Next.
RetryNext ==
    \/ \E options \in RetryOptions : RetryStart(options)
    \/ \E out \in WorkOutcomes : RetryInvoke(out)
    \/ RetryWake

RetrySpec == Init /\ [][RetryNext]_vars

\* Every invocation of the work function settles and every timer fires.
FairRetrySpec ==
    /\ RetrySpec
    /\ WF_vars(\E out \in WorkOutcomes : RetryInvoke(out))
    /\ WF_vars(RetryWake)

\* Start of the server process: the modules are evaluated in import order.
BootNext ==
    \/ \E processEnv \in ProcessEnvs : StartProcess(processEnv)
    \/ LoadEnvModule
    \/ LoadGeminiClient

BootSpec == Init /\ [][BootNext]_vars

\* The dashboard of one analysis polling while the run writes its row.
DashNext ==
    \/ \E id \in AnalysisIds : MountDashboard(id)
    \/ RunPollingEffect
    \/ IntervalTick
    \/ \E n \in 1..MaxFetches, dbFault \in BOOLEAN, ms \in DashElapsedSamples :
          ServeFetch(n, dbFault, ms)
    \/ \E n \in 1..MaxFetches : ReceiveFetch(n)
    \/ \E n \in 1..MaxFetches : FetchFails(n)
    \/ CreateRecord("id-1")
    \/ \E slot \in Slots : WriteStage("id-1", slot)
    \/ FailStage("id-1")
    \/ \E status \in TerminalStatuses : Finalize("id-1", status)

DashSpec == Init /\ [][DashNext]_vars

\* Status requests interleaved with the writes of the Analysis rows.
PollNext ==
    \/ \E id \in AnalysisIds : CreateRecord(id)
    \/ \E id \in AnalysisIds, slot \in Slots : WriteStage(id, slot)
    \/ \E id \in AnalysisIds : FailStage(id)
    \/ \E id \in AnalysisIds, status \in {"completed", "error"} : Finalize(id, status)
    \/ \E id \in AnalysisIds, dbFault \in BOOLEAN, ms \in ElapsedSamples :
          GET(id, dbFault, ms)

PollSpec == Init /\ [][PollNext]_vars

----------------------------------------------------------------------------
(* Vocabulary of the properties                                            *)

CollectorKeys == {"scraping", "technologies", "performance"}

Called(stage) == \E i \in DOMAIN log : log[i] = Call(stage)
CallCount(stage) == Cardinality({i \in DOMAIN log : log[i] = Call(stage)})
Threw(stage) == \E i \in DOMAIN log : log[i] = [ev |-> "throw", stage |-> stage]

\* the request passed validation
Launched == body.json /\ FieldErrors(body) = {}
\* the handler answered with the result of a run
Answered == pc = "done" /\ response # Null /\ response.http = 200
\* the three collectors have been awaited
CollectorsDone == pc \in {"d", "d_await", "respond"} \/ Answered
\* the decision whether to run analyzeCRO has been taken
GuardPassed == pc \in {"d_await", "respond"} \/ Answered

StageIndex(stage) ==
    CASE stage = "scraping" -> 1
      [] stage = "technologies" -> 2
      [] stage = "performance" -> 3
      [] OTHER -> 4

\* the failures of the AI collaborator: a thrown error (rate limit or
\* other), an empty text, a text that is not JSON
AIFailures == AIErrorMessages \cup {"", "not json"}

FallbackNotes ==
    {"Limite de requisicoes da IA excedido."}
    \cup {"Erro na analise inteligente: " \o m :
            m \in AIErrorMessages \cup {EmptyAnswer, ParseFailure}}

----------------------------------------------------------------------------
(* C1: in every final result, status 'completed' implies that the content  *)
(* payload and the performance payload are both present.                   *)
(* The handler reports 'completed' unconditionally, so this fails as soon  *)
(* as scrapeSite throws.                                                   *)
C1_CompletedHasContentAndPerformance ==
    (response # Null /\ response.status = "completed")
        => (response.data.scrapedData # Null /\ response.data.performance # Null)

(* C2: a failure of any of the three collectors stays inside its stage:    *)
(* whatever subset of them fails, each collector is called exactly once,   *)
(* a thrown error is noted under the key of its own stage and under no     *)
(* other, and a launched run never ends in the handler's outer catch.      *)
C2_StageFailuresAreIsolated ==
    /\ CollectorsDone =>
          /\ \A s \in CollectorKeys : CallCount(s) = 1
          /\ \A s \in CollectorKeys : Threw(s) <=> errors[s] # Undefined
          /\ upstream["scraping"] = "fault" => Threw("scraping")
          /\ errors["cro"] \in {Undefined, SkippedMessage}
    /\ (pc = "done" /\ Launched) => response.http = 200

C2_Witness ==
    /\ Answered
    /\ Threw("scraping")
    /\ upstream["technologies"] = "fault"
    /\ upstream["performance"] = "fault"
    /\ \A s \in CollectorKeys : CallCount(s) = 1

(* C3: analyzeCRO is invoked if and only if the content payload and the    *)
(* performance payload were both produced, and the insights slot is never  *)
(* set in a result whose content or performance slot is absent (the        *)
(* technologies slot is not required).                                     *)
C3_InsightsOnlyWithContentAndPerformance ==
    /\ GuardPassed =>
          (Called("cro") <=> (scrapedData # Null /\ performanceData # Null))
    /\ ~GuardPassed => ~Called("cro")
    /\ croAnalysis # Null => (scrapedData # Null /\ performanceData # Null)
    /\ Answered =>
          (response.data.cro # Null =>
              (response.data.scrapedData # Null /\ response.data.performance # Null))

C3_Witness ==
    /\ Answered
    /\ response.data.cro # Null
    /\ response.data.technologies.error # Undefined
    /\ response.data.technologies.technologies = <<>>

(* C4: when the insight stage is skipped for a missing prerequisite, the   *)
(* run is finalized with status 'error'.                                   *)
(* The handler answers 'completed' and only notes the skip in errors.cro.  *)
C4_SkippedInsightEndsInError ==
    (pc = "done" /\ errors["cro"] = SkippedMessage) => response.status = "error"

C6_RateLimitYieldsFallback ==
    (Answered /\ Called("cro") /\ upstream["cro"] = RateLimitMessage) =>
        /\ response.status = "completed"
        /\ response.data.cro # Null
        /\ response.data.cro # AIAnalysis
        /\ response.data.cro.scoreCRO.nota = response.data.performance.score
        /\ response.data.cro.error = "Limite de requisicoes da IA excedido."

C6_Witness ==
    /\ Answered
    /\ upstream["cro"] = RateLimitMessage
    /\ response.data.performance.score = 89
    /\ response.data.cro.scoreCRO.nota = 89

(* C7: when technology detection or performance scoring fails, the result  *)
(* holds no payload for that stage and an error text for it, and a failed  *)
(* performance scoring keeps analyzeCRO from running.                      *)
(* Both collaborators swallow their faults and return an error-carrying    *)
(* payload, so the slot is present and errors.<stage> stays unset.         *)
C7_FailedStageLeavesSlotAbsent ==
    Answered =>
        /\ upstream["technologies"] = "fault" =>
              (technologiesData = Null /\ errors["technologies"] # Undefined)
        /\ upstream["performance"] \in {"fault", "timeout"} =>
              /\ performanceData = Null
              /\ errors["performance"] # Undefined
              /\ ~Called("cro")

(* C8: the stages run strictly in the order content, technologies,         *)
(* performance, insights, without overlap: a call is followed by its own   *)
(* outcome before any other call, a stage is called only after every       *)
(* earlier collector has been called, and no stage is called twice.        *)
C8_StagesSequentialInOrder ==
    \A i \in DOMAIN log :
        /\ log[i].ev = "call" =>
              /\ i < Len(log) =>
                    (log[i + 1].ev # "call" /\ log[i + 1].stage = log[i].stage)
              /\ \A j \in DOMAIN log :
                    (j < i /\ log[j].ev = "call") =>
                        StageIndex(log[j].stage) < StageIndex(log[i].stage)
              /\ \A s \in CollectorKeys :
                    StageIndex(s) < StageIndex(log[i].stage) =>
                        \E j \in 1..(i - 1) : log[j] = Call(s)
        /\ log[i].ev # "call" =>
              (i > 1 /\ log[i - 1] = Call(log[i].stage))

C8_Witness ==
    /\ Answered
    /\ Len(log) = 8
    /\ log[1] = Call("scraping")
    /\ log[3] = Call("technologies")
    /\ log[5] = Call("performance")
    /\ log[7] = Call("cro")

(* C9: the outcome of each stage is written to the persisted record after  *)
(* that stage and before the next one begins.                              *)
(* The handler keeps its partial results in local variables only: no       *)
(* Analysis row is ever created or updated.                                *)
C9_StageOutcomePersistedBeforeNextStage ==
    (pc \in {"b", "b_await", "c", "c_await", "d", "d_await", "respond"}
        /\ scrapedData # Null)
        => (store[analysisId] # Null /\ store[analysisId].scrapedData # Null)

(* C10: a valid launch request is answered with status 'processing',       *)
(* after the record was created and before any stage has been called.      *)
(* The handler awaits the whole pipeline and answers 'completed'.          *)
C10_LaunchAnswersProcessing ==
    (pc = "done" /\ Launched) =>
        /\ response.status = "processing"
        /\ store[analysisId] # Null

----------------------------------------------------------------------------
(* Vocabulary of the properties of retryWithBackoff and of the status      *)
(* endpoint                                                                *)

\* the sample bodies every field of which satisfies the schema
WellFormedBodies ==
    {b \in Bodies :
        /\ b.json
        /\ b.name = "Ana Souza"
        /\ b.email = "ana@example.com"
        /\ b.empresa = "Loja"
        /\ b.websiteUrl = ValidUrl
        /\ b.phone \in {Undefined, "", "(11) 98765-4321"}}

NoRecord == \A id \in AnalysisIds : store[id] = Null

\* the rate-limit signals: the RESOURCE_EXHAUSTED marker, status 429, code 429
RateLimitSignals ==
    {e \in WorkErrors :
        e.message = RateLimitMessage \/ e.status = 429 \/ e.code = 429}

IsRateLimited(out) == out.kind = "throw" /\ out.error \in RateLimitSignals
IsOtherFailure(out) == out.kind = "throw" /\ out.error \notin RateLimitSignals

\* n is Math.round of the value v given in thousandths
IsRounded(n, v) == n * 1000 <= v + 500 /\ v + 500 < (n + 1) * 1000

----------------------------------------------------------------------------
(* C11: a launch request that fails the schema (for instance websiteUrl    *)
(* 'not-a-url') is answered 400 with the set of fields in error; no record *)
(* is created and no stage collaborator is ever called for it.             *)
C11_InvalidRequestRejected ==
    /\ (pc = "done" /\ body.json /\ body \notin WellFormedBodies) =>
          /\ response.http = 400
          /\ response.fieldErrors # {}
          /\ body.websiteUrl # ValidUrl => "websiteUrl" \in response.fieldErrors
          /\ log = <<>>
          /\ NoRecord
    /\ (pc # "idle" /\ body \notin WellFormedBodies) =>
          (log = <<>> /\ croInput = Null /\ NoRecord)

C11_Witness ==
    /\ pc = "done"
    /\ body.websiteUrl = "not-a-url"
    /\ response.http = 400
    /\ response.fieldErrors = {"websiteUrl"}
    /\ log = <<>>

(* C12: when the work function fails k times with a rate-limit signal and  *)
(* then succeeds, with maxRetries >= k, retryWithBackoff returns the       *)
(* success after k + 1 invocations and k waits, the i-th wait being        *)
(* initialDelay * 2^(i-1).                                                 *)
C12_RetriesThenSuccess ==
    LET n == Len(retry.outcomes)
    IN  (/\ n >= 1
         /\ retry.outcomes[n].kind = "return"
         /\ \A i \in 1..(n - 1) : IsRateLimited(retry.outcomes[i])
         /\ n - 1 <= retry.maxRetries) =>
            /\ retry.pc = "done"
            /\ retry.result = retry.outcomes[n]
            /\ retry.calls = n
            /\ Len(retry.waits) = n - 1
            /\ \A i \in 1..(n - 1) :
                  retry.waits[i] = retry.initialDelay * 2^(i - 1)

C12_Witness ==
    /\ retry.pc = "done"
    /\ retry.result.kind = "return"
    /\ retry.calls = 4
    /\ retry.waits = <<1000, 2000, 4000>>

(* C13: a failure that is not a rate-limit signal is never retried: it is  *)
(* the last invocation, it is the error that is thrown, and no wait        *)
(* follows it, whatever maxRetries is and however many rate-limit retries  *)
(* came before.                                                            *)
C13_OtherFailuresNotRetried ==
    \A i \in DOMAIN retry.outcomes :
        IsOtherFailure(retry.outcomes[i]) =>
            /\ i = Len(retry.outcomes)
            /\ retry.pc = "done"
            /\ retry.result = retry.outcomes[i]
            /\ retry.calls = i
            /\ Len(retry.waits) = i - 1

C13_Witness ==
    /\ retry.pc = "done"
    /\ retry.maxRetries = 3
    /\ Len(retry.outcomes) = 3
    /\ IsRateLimited(retry.outcomes[1])
    /\ IsRateLimited(retry.outcomes[2])
    /\ IsOtherFailure(retry.outcomes[3])
    /\ retry.result = retry.outcomes[3]

(* C14: when the work function keeps failing with a rate-limit signal it   *)
(* is invoked exactly maxRetries + 1 times and the last failure is thrown  *)
(* unchanged; with maxRetries = 0 that is one attempt and no wait.         *)
C14_RateLimitExhaustsRetries ==
    /\ (\A i \in DOMAIN retry.outcomes : IsRateLimited(retry.outcomes[i])) =>
          /\ Len(retry.outcomes) <= retry.maxRetries + 1
          /\ (retry.pc = "done") <=> (Len(retry.outcomes) = retry.maxRetries + 1)
    /\ (retry.pc = "done" /\ IsRateLimited(retry.result)) =>
          /\ retry.calls = retry.maxRetries + 1
          /\ Len(retry.waits) = retry.maxRetries
          /\ retry.result = retry.outcomes[Len(retry.outcomes)]
          /\ retry.maxRetries = 0 => (retry.calls = 1 /\ retry.waits = <<>>)

C14_Witness ==
    /\ retry.pc = "done"
    /\ retry.maxRetries = 2
    /\ IsRateLimited(retry.result)
    /\ retry.calls = 3
    /\ Len(retry.waits) = 2

(* C15: across successive status requests for the same identifier the      *)
(* reported number of completed steps never decreases, whatever writes of  *)
(* the row happen in between.                                              *)
C15_CompletedCountMonotonic ==
    [][(/\ getResp # Null
        /\ getResp.http = 200
        /\ getResp'.http = 200
        /\ getResp'.id = getResp.id)
          => getResp'.progress.current >= getResp.progress.current]_vars

C15_Witness ==
    /\ getResp # Null
    /\ getResp.http = 200
    /\ getResp.progress.current = 1
    /\ store[getResp.id].performanceData # Null
    /\ store[getResp.id].status = "error"

(* C16: for a row with the content and performance payloads present and    *)
(* the technologies payload absent, the status endpoint reports 75 percent *)
(* and no error message.                                                   *)
(* The endpoint counts the populated slots only: it reports 2 of 4 steps,  *)
(* 50 percent.                                                             *)
C16_FailedTechnologyCountsAsStep ==
    (/\ getResp # Null
     /\ getResp.http = 200
     /\ getResp.status = "processing"
     /\ getResp.data.scrapedData # Null
     /\ getResp.data.performanceData # Null
     /\ getResp.data.technologiesData = Null
     /\ getResp.data.croInsights = Null) =>
        (getResp.progress.percentage = 75 /\ getResp.error = Undefined)

(* C17: the remaining-time estimate is max(0, 90 - elapsed seconds),       *)
(* rounded, while the status is 'processing', hence never negative; it is  *)
(* 0 when the status is 'completed' and null when it is 'error'.           *)
C17_EstimatedTimeRemaining ==
    [][\A id \in AnalysisIds, ms \in ElapsedSamples :
          (store[id] # Null /\ GET(id, FALSE, ms)) =>
              LET est == getResp'.estimatedTimeRemaining
                  left == 90 * 1000 - ms
              IN  CASE store[id].status = "processing" ->
                          /\ est # Null
                          /\ est.num >= 0
                          /\ IF left + 500 < 0 THEN est.num = 0
                             ELSE IsRounded(est.num, left)
                    [] store[id].status = "completed" -> est = Num(0)
                    [] OTHER -> est = Null]_vars

C17_Witness ==
    /\ getResp # Null
    /\ getResp.http = 200
    /\ getResp.status = "processing"
    /\ getResp.estimatedTimeRemaining = Num(0)

(* C18: a fault outside the stage boundaries (the request body cannot be   *)
(* parsed) is answered with a server-error status and a generic message,   *)
(* and the raw internal error text is not part of the answer.              *)
(* The 500 answer carries error.message in its 'error' field.              *)
C18_FatalFaultHidesRawError ==
    (pc = "done" /\ ~body.json) =>
        /\ response.http = 500
        /\ response.status = "error"
        /\ response.message = "Erro interno no servidor ao processar analise."
        /\ response.error = Undefined

(* C19: a rate-limit failure of the AI call is retried through             *)
(* retryWithBackoff and only falls back once the retries are exhausted.    *)
(* analyzeCRO calls the AI client directly: retryWithBackoff is never      *)
(* entered and the first rate-limit failure already yields the fallback.   *)
C19_RateLimitRetriedBeforeFallback ==
    (Answered /\ Called("cro") /\ upstream["cro"] = RateLimitMessage) =>
        /\ retry.pc = "done"
        /\ retry.calls = retry.maxRetries + 1

(* C20: analyzeCRO receives the content payload of stage 1, the            *)
(* performance payload of stage 3 and the technology list of stage 2 (the  *)
(* empty list when there is no technology payload), and it is called       *)
(* whenever content and performance are present, whatever stage 2 gave.    *)
C20_InsightInputs ==
    /\ croInput # Null =>
          /\ croInput.scrapedData # Null
          /\ croInput.scrapedData = scrapedData
          /\ croInput.scrapedData.url = body.websiteUrl
          /\ croInput.performanceData # Null
          /\ croInput.performanceData = performanceData
          /\ croInput.technologies =
                IF technologiesData # Null THEN technologiesData.technologies
                ELSE <<>>
    /\ (GuardPassed /\ scrapedData # Null /\ performanceData # Null) =>
          croInput # Null

C20_Witness ==
    /\ Answered
    /\ croInput # Null
    /\ Len(croInput.technologies) = 1
    /\ croInput.technologies[1].name = "Shopify"

----------------------------------------------------------------------------
(* Vocabulary of the properties of the progress view                       *)

SlotAt(k) == CHOOSE slot \in Slots : SlotIndex(slot) = k

\* the first stage whose slot is empty and that the run has not been
\* through yet (5 when there is none)
FirstUnattempted(row, att) ==
    IF \E k \in 1..4 : row[SlotAt(k)] = Null /\ k > att
    THEN CHOOSE k \in 1..4 :
            /\ row[SlotAt(k)] = Null /\ k > att
            /\ \A j \in 1..(k - 1) : ~(row[SlotAt(j)] = Null /\ j > att)
    ELSE 5

\* populated slots counted in stage order up to the first unattempted one
OrderedCount(row, att) ==
    Cardinality({k \in 1..(FirstUnattempted(row, att) - 1) : row[SlotAt(k)] # Null})

\* the stage the run executes next (0 when no stage is left to run)
NextStage(id) ==
    IF attempted[id] < 3 THEN attempted[id] + 1
    ELSE IF /\ attempted[id] = 3
            /\ store[id].scrapedData # Null
            /\ store[id].performanceData # Null
    THEN 4
    ELSE 0

StageLabel(k) ==
    CASE k = 1 -> "Coletando dados do site..."
      [] k = 2 -> "Detectando tecnologias..."
      [] k = 3 -> "Analisando performance..."
      [] OTHER -> "Gerando insights com IA..."

PresentCount(data) ==
    Cardinality({slot \in Slots : data[slot] # Null})

----------------------------------------------------------------------------
(* C21: the number of completed steps the status endpoint reports is the   *)
(* number of populated slots counted in stage order up to the first slot   *)
(* that is empty and not yet attempted, for every row a sequential run     *)
(* produces; it lies in 0..4.                                              *)
C21_CountStopsAtUnattempted ==
    [][(getResp' # getResp /\ getResp'.http = 200) =>
          LET id == getResp'.id
          IN  /\ getResp'.progress.current \in 0..4
              /\ getResp'.progress.current =
                    OrderedCount(store[id], attempted[id])]_vars

C21_Witness ==
    /\ getResp # Null
    /\ getResp.http = 200
    /\ getResp.progress.current = 2
    /\ getResp.data.scrapedData = Null
    /\ getResp.data.technologiesData # Null
    /\ getResp.data.performanceData # Null

(* C22: for every row of a run the reported current step names the stage   *)
(* the run executes next, also after an earlier stage failed and left its  *)
(* slot empty; it is the completed label once insights are present and the *)
(* error label when the status is 'error'.                                 *)
(* The label is derived from the populated slots alone: after a stage has  *)
(* failed, the label still names that stage (or an earlier one).           *)
C22_LabelNamesNextStage ==
    [][(getResp' # getResp /\ getResp'.http = 200) =>
          LET id == getResp'.id
              label == getResp'.progress.currentStep
          IN  /\ store[id].status = "error" =>
                    label = "Erro no processamento."
              /\ (store[id].status # "error" /\ store[id].croInsights # Null) =>
                    label = "Analise concluida!"
              /\ (/\ store[id].status = "processing"
                  /\ store[id].croInsights = Null
                  /\ NextStage(id) \in 1..4) =>
                    label = StageLabel(NextStage(id))]_vars

(* C23: every status answer for an existing row reports 4 total steps, a   *)
(* number of completed steps in 0..4 equal to the number of payloads       *)
(* present, and a percentage of 25 times that number.                      *)
C23_PercentageOfFourSteps ==
    (getResp # Null /\ getResp.http = 200) =>
        /\ getResp.progress.total = 4
        /\ getResp.progress.current \in 0..4
        /\ getResp.progress.current = PresentCount(getResp.data)
        /\ getResp.progress.percentage = 25 * getResp.progress.current
        /\ getResp.progress.percentage \in {0, 25, 50, 75, 100}

C23_Witness ==
    /\ getResp # Null
    /\ getResp.http = 200
    /\ getResp.progress.current = 3
    /\ getResp.progress.percentage = 75

(* C24: serving a status request never changes a stored row: every step    *)
(* that produces an answer (for a known or an unknown identifier, with or  *)
(* without a database fault) leaves the store as it was.                   *)
C24_StatusRequestOnlyReads ==
    [][getResp' # getResp => store' = store]_vars

C24_Witness ==
    /\ getResp # Null
    /\ getResp.http = 200
    /\ getResp.status = "processing"
    /\ getResp.progress.current = 1
    /\ store[getResp.id].status = "completed"
    /\ store[getResp.id].croInsights # Null

----------------------------------------------------------------------------
(* Vocabulary of the properties of module evaluation                       *)

MissingOf(processEnv) ==
    {n \in RequiredNames : processEnv[n] = Undefined \/ processEnv[n] = ""}

\* the names of a set of missing variables as the error message lists them
ListedNames(missing) ==
    CASE missing = {"GEMINI_API_KEY"} -> "GEMINI_API_KEY"
      [] missing = {"BUILTWITH_API_KEY"} -> "BUILTWITH_API_KEY"
      [] missing = {"PAGESPEED_API_KEY"} -> "PAGESPEED_API_KEY"
      [] missing = {"GEMINI_API_KEY", "BUILTWITH_API_KEY"} ->
            "GEMINI_API_KEY, BUILTWITH_API_KEY"
      [] missing = {"GEMINI_API_KEY", "PAGESPEED_API_KEY"} ->
            "GEMINI_API_KEY, PAGESPEED_API_KEY"
      [] missing = {"BUILTWITH_API_KEY", "PAGESPEED_API_KEY"} ->
            "BUILTWITH_API_KEY, PAGESPEED_API_KEY"
      [] OTHER -> "GEMINI_API_KEY, BUILTWITH_API_KEY, PAGESPEED_API_KEY"

EnvModuleEvaluated == boot # Null /\ boot.pc # "env"

----------------------------------------------------------------------------
(* C25: when one of GEMINI_API_KEY, BUILTWITH_API_KEY, PAGESPEED_API_KEY   *)
(* is unset or empty, evaluating the env module throws an error that lists *)
(* every missing variable, no env object is exported and no module that    *)
(* imports it is evaluated; when all three are set the exported object     *)
(* holds the three values.                                                 *)
C25_ValidateEnvFailsFast ==
    EnvModuleEvaluated =>
        LET missing == MissingOf(boot.processEnv)
        IN  IF missing # {}
            THEN /\ boot.pc = "failed"
                 /\ boot.env = Null
                 /\ boot.genAI = Null
                 /\ boot.error =
                       "Variaveis de ambiente faltando: " \o ListedNames(missing)
                       \o "\nVerifique se o arquivo .env.local esta configurado corretamente."
            ELSE /\ boot.env # Null
                 /\ DOMAIN boot.env = RequiredNames
                 /\ \A n \in RequiredNames :
                       boot.env[n] = SecretOf(n) /\ boot.env[n] = boot.processEnv[n]

C25_Witness ==
    /\ boot # Null
    /\ boot.pc = "failed"
    /\ boot.processEnv["GEMINI_API_KEY"] = SecretOf("GEMINI_API_KEY")
    /\ boot.processEnv["BUILTWITH_API_KEY"] = ""
    /\ boot.processEnv["PAGESPEED_API_KEY"] = Undefined
    /\ boot.error = MissingEnvsMessage(<<"BUILTWITH_API_KEY", "PAGESPEED_API_KEY">>)

(* C26: whenever the env module has been evaluated successfully, the       *)
(* evaluation of the AI client module succeeds too and the client is       *)
(* constructed with a key.                                                 *)
(* The client module reads env.GOOGLE_API_KEY, a property the validated    *)
(* object never has: its evaluation throws in every validated environment. *)
C26_ValidatedEnvLoadsClient ==
    (boot # Null /\ boot.env # Null /\ boot.pc # "client") =>
        /\ boot.pc = "loaded"
        /\ boot.genAI # Null
        /\ Truthy(boot.genAI.apiKey)

----------------------------------------------------------------------------
(* Vocabulary of the properties of the dashboard                           *)

Displayed(d) == IF d = Null \/ d.analysisData = Null THEN "loading"
                ELSE d.analysisData.status

----------------------------------------------------------------------------
(* C27: once the dashboard has applied an answer with a terminal status     *)
(* (completed or error), the displayed status never becomes non-terminal    *)
(* again, whatever the order in which the answers to its requests arrive.   *)
(* An answer computed before the run finished can arrive after the terminal *)
(* one; it is applied unconditionally and the processing view comes back.   *)
C27_DisplayStaysTerminal ==
    [][(Displayed(dash) \in TerminalStatuses /\ dash.analysisData # NotFoundData) =>
          Displayed(dash') \in TerminalStatuses]_vars

(* C28: after the dashboard has received a terminal answer (status         *)
(* completed or error, or a 404) it sends no further status request.       *)
(* Stopping sets isPolling to false, which re-runs the polling effect, and *)
(* the effect starts with an unconditional fetchStatus().                  *)
C28_NoRequestAfterTerminal ==
    dash # Null =>
        \A n \in DOMAIN dash.fetches : ~dash.fetches[n].afterTerminal

----------------------------------------------------------------------------
(* C29: retryWithBackoff terminates whenever every invocation of the work  *)
(* function settles: for every maxRetries and every pattern of failures a  *)
(* started execution returns or throws, after at most maxRetries + 1       *)
(* invocations and at most maxRetries waits.                               *)
C29_RetryTerminates ==
    /\ [](/\ retry.calls <= retry.maxRetries + 1
          /\ Len(retry.waits) <= retry.maxRetries)
    /\ (retry.pc \in {"call", "sleep"}) ~> (retry.pc = "done")

C29_Witness ==
    /\ retry.pc = "done"
    /\ retry.maxRetries = 3
    /\ retry.calls = 4
    /\ Len(retry.waits) = 3
    /\ retry.result.kind = "throw"

(* C30: every fallback insight payload is well-formed, for every           *)
(* performance score and every failure of the AI call: both lists are      *)
(* non-empty, every opportunity has a priority in 1..5 and an impact of    *)
(* alto, medio or baixo, the strong-performance strength is present iff    *)
(* the score is at least 90, the general-performance opportunity iff the   *)
(* score is below 50, and the note of the triggering error is attached.    *)
C30_FallbackWellFormed ==
    (GuardPassed /\ pc # "d_await" /\ Called("cro") /\ upstream["cro"] \in AIFailures) =>
        LET fb == croAnalysis
            score == croInput.performanceData.score
            strengths == {fb.pontoFortes[i] : i \in DOMAIN fb.pontoFortes}
            titles == {fb.oportunidadesMelhoria[i].titulo :
                          i \in DOMAIN fb.oportunidadesMelhoria}
        IN  /\ fb # Null
            /\ score \in 0..100
            /\ Len(fb.pontoFortes) > 0
            /\ Len(fb.oportunidadesMelhoria) > 0
            /\ \A i \in DOMAIN fb.oportunidadesMelhoria :
                  /\ fb.oportunidadesMelhoria[i].prioridade \in 1..5
                  /\ fb.oportunidadesMelhoria[i].impacto \in {"alto", "medio", "baixo"}
            /\ ("Excelente pontuacao de performance geral." \in strengths) <=> (score >= 90)
            /\ ("Melhorar Performance Geral" \in titles) <=> (score < 50)
            /\ fb.error \in FallbackNotes

C30_Witness ==
    /\ Answered
    /\ upstream["cro"] = "not json"
    /\ croInput.performanceData.score = 50
    /\ croAnalysis.pontoFortes = <<"Site acessivel">>
    /\ croAnalysis.oportunidadesMelhoria[1].titulo = "Revisao Manual Necessaria"
    /\ croAnalysis.error = "Erro na analise inteligente: " \o ParseFailure

====
